---- MODULE Spec2Model ----
(***************************************************************************)
(* A model of the GQ GMC geiger counter driver (class GQLLC::GQGMC,        *)
(* gqgmc.cc / gqgmc.hh): command framing, the flush / write / read         *)
(* exchange over the serial port, the fixed-size reply decoders, the       *)
(* host mirror of the 256-byte configuration block with its                *)
(* erase / write-all / update commit, and the history read request.        *)
(*                                                                         *)
(* The device and the serial line are the environment: every read(2) of    *)
(* one byte returns 1 (a byte), 0 (the 0.5 s timeout) or -1 (an error).    *)
(* A "script" is the sequence of answers the environment gives to the      *)
(* successive read calls of one loop; calls beyond the script time out.    *)
(***************************************************************************)
EXTENDS Integers, Sequences, FiniteSets, TLC

VARIABLES
  mError_code,    \* gmc_error_t: the sticky error code
  mRead_status,   \* bool: did the last readCmdReturn get all its bytes
  mCPS_is_on,     \* bool: automatic CPS reporting is on
  mBig_endian,    \* bool: the host CPU is big endian
  charSigned,     \* bool: plain char is signed in this build (x86) or not (ARM)
  mCFG_Data,      \* cfg_data_t seen as 256 bytes: the host mirror of the NVM
  mHistory_data,  \* the 4096-byte history buffer (an Arr)
  pc,             \* where the caller is: "idle", or inside updateConfigurationData
  idx,            \* loop variable i of loadConfigurationData
  op,             \* the public method entered last
  arg,            \* its arguments
  ret,            \* its return value
  sent,           \* the frames written to the port since that method was entered
  acked,          \* did the replies arrive in full: of the last exchange (last),
                  \* of every exchange of the method (all), of every
                  \* write-configuration command of the commit (writes)
  io              \* the transport calls of the last step, in order

vars == <<mError_code, mRead_status, mCPS_is_on, mBig_endian, charSigned,
          mCFG_Data, mHistory_data, pc, idx, op, arg, ret, sent, acked, io>>

----------------------------------------------------------------------------
(* Program constants *)

kNVMSize == 256
kHistory_Data_Maxsize == 4096
kHistory_Addr_Maxsize == 65536
kMaxtries == 10
versize == 14
cpmsize == 2
voltsize == 1
retsize == 1

Byte == 0..255

\* enum gmc_error_t
gmc_error_t ==
  {"eNoProblem", "eUSB_open_failed", "eOlder_firmware", "eGet_version",
   "eGet_serial_number", "eGet_CPM", "eGet_CPS", "eGet_AutoCPS", "eGet_CFG",
   "eErase_CFG", "eUpdate_CFG", "eWrite_CFG", "eClear_USB",
   "eGet_battery_voltage", "eGet_history_data",
   "eGet_history_data_length", "eGet_history_data_address",
   "eGet_history_data_overrun", "eSet_Year", "eSet_Month", "eSet_Day",
   "eSet_Hour", "eSet_Minute", "eSet_Second"}

----------------------------------------------------------------------------
(* uint32_t: a 32-bit unsigned value kept as two 16-bit halves, so that the *)
(* arithmetic wraps at 2^32 exactly as the C++ does.                        *)

H16 == 2^16

U32(x) == [hi |-> x \div H16, lo |-> x % H16]

\* the conversion of a (small) signed value to uint32_t: -1 is 0xFFFFFFFF
ToU32(n) ==
  IF n >= 0 THEN U32(n)
  ELSE [hi |-> (H16 - 1) - ((-n - 1) \div H16),
        lo |-> (H16 - 1) - ((-n - 1) % H16)]

Add32(a, b) ==
  LET lo == a.lo + b.lo
      hi == a.hi + b.hi + (lo \div H16)
  IN  [hi |-> hi % H16, lo |-> lo % H16]

Lt32(a, b) == a.hi < b.hi \/ (a.hi = b.hi /\ a.lo < b.lo)
Gt32(a, b) == Lt32(b, a)
Ge32(a, b) == ~Lt32(a, b)

----------------------------------------------------------------------------
(* Command frames, as the bytes written to the port *)

\* "<GETVER>>"
get_version_cmd == <<60, 71, 69, 84, 86, 69, 82, 62, 62>>
\* "<GETVOLT>>"
get_voltage_cmd == <<60, 71, 69, 84, 86, 79, 76, 84, 62, 62>>
\* "<GETCPM>>"
get_cpm_cmd == <<60, 71, 69, 84, 67, 80, 77, 62, 62>>
\* "<GETCPS>>"
get_cps_cmd == <<60, 71, 69, 84, 67, 80, 83, 62, 62>>
\* "<ECFG>>"
erase_cfg_cmd == <<60, 69, 67, 70, 71, 62, 62>>
\* "<CFGUPDATE>>"
update_cfg_cmd == <<60, 67, 70, 71, 85, 80, 68, 65, 84, 69, 62, 62>>

\* a slip: the offset byte and the data byte exchanged
write_cfg_cmd_swapped(i, data) == <<60, 87, 67, 70, 71, data, i % 256, 62, 62>>

\* "<WCFGAD>>" with write_cfg_cmd[5] = uint8_t(i) and write_cfg_cmd[6] = pCfg_Data[i]
write_cfg_cmd(i, data) == <<60, 87, 67, 70, 71, i % 256, data, 62, 62>>

----------------------------------------------------------------------------
(* The serial port: read(mUSB_serial, inp, 1) *)

Timeout == [n |-> 0, b |-> 0]      \* no byte within VTIME
ReadErr == [n |-> -1, b |-> 0]     \* read fails
Got(v)  == [n |-> 1, b |-> v]      \* one byte, v

\* the answer to the k-th read call of a loop
Rd(script, k) == IF k <= Len(script) THEN script[k] ELSE Timeout

\* transport calls as they are logged in io
FlushEv(reads)      == [t |-> "flush", reads |-> reads, frame |-> <<>>]
WriteEv(frame)      == [t |-> "write", reads |-> 0, frame |-> frame]
ReadEv(reads)       == [t |-> "read", reads |-> reads, frame |-> <<>>]

----------------------------------------------------------------------------
(* clearUSB: at most kMaxtries reads, until one returns 0 *)

RECURSIVE clearLoop(_, _, _)
clearLoop(fl, i, rcvd) ==
  IF i >= kMaxtries THEN [reads |-> i, rcvd |-> rcvd]
  ELSE LET r == ToU32(Rd(fl, i + 1).n)
       IN  IF r = U32(0) THEN [reads |-> i + 1, rcvd |-> r]
           ELSE clearLoop(fl, i + 1, r)

\* st: [err, rstat, sent, acked, io]; fl: the flush script
clearUSB(st, fl) ==
  LET c == clearLoop(fl, 0, U32(0))
  IN  [st EXCEPT !.err = IF Gt32(c.rcvd, U32(0)) THEN "eClear_USB" ELSE @,
                 !.io  = Append(@, FlushEv(c.reads))]

(* sendCmd: resets the error code and the read status, then writes *)
sendCmd(st, cmd) ==
  [st EXCEPT !.err = "eNoProblem",
             !.rstat = TRUE,
             !.sent = Append(@, cmd),
             !.io = Append(@, WriteEv(cmd))]

(* An array in memory: its size, the bytes stored into it (w, by index) and  *)
(* the value every other element holds (dflt).                               *)
Arr(size, dflt) == [size |-> size, dflt |-> dflt, w |-> <<>>]
Elem(a, i) == IF i \in DOMAIN a.w THEN a.w[i] ELSE a.dflt
Store(a, i, v) == [a EXCEPT !.w = (i :> v) @@ @]

(* readCmdReturn: at most retbytes reads of one byte, each stored at         *)
(* retdata[rcvd]; rcvd += read(...) in uint32_t. A store at an index outside *)
(* the destination array is recorded in oob.                                 *)

\* a slip: the byte stored one element past the count of bytes received
readPass_ahead(rp, retbytes, l, i) ==
  LET r     == Rd(rp, i + 1)
      at    == l.rcvd.hi * H16 + l.rcvd.lo + 1
      inb   == l.rcvd.hi = 0 /\ at < l.data.size
      rcvd2 == Add32(l.rcvd, ToU32(r.n))
  IN  [reads |-> i + 1,
       rcvd  |-> rcvd2,
       data  |-> IF r.n = 1 /\ inb THEN Store(l.data, at, r.b) ELSE l.data,
       oob   |-> l.oob \/ (r.n = 1 /\ ~inb),
       done  |-> Ge32(rcvd2, U32(retbytes))]

\* pass i of the for loop, from the loop state l; done is the break
readPass(rp, retbytes, l, i) ==
  LET r     == Rd(rp, i + 1)
      at    == l.rcvd.hi * H16 + l.rcvd.lo
      inb   == l.rcvd.hi = 0 /\ at < l.data.size
      rcvd2 == Add32(l.rcvd, ToU32(r.n))
  IN  [reads |-> i + 1,
       rcvd  |-> rcvd2,
       data  |-> IF r.n = 1 /\ inb THEN Store(l.data, at, r.b) ELSE l.data,
       oob   |-> l.oob \/ (r.n = 1 /\ ~inb),
       done  |-> Ge32(rcvd2, U32(retbytes))]

\* the passes i = lo .. hi-1 in order, none after a break (the range is
\* halved so that a 4096-byte reply does not nest 4096 deep)
RECURSIVE readLoop(_, _, _, _, _)
readLoop(rp, retbytes, l, lo, hi) ==
  IF l.done \/ lo >= hi THEN l
  ELSE IF hi = lo + 1 THEN readPass(rp, retbytes, l, lo)
  ELSE LET mid == (lo + hi) \div 2
           l1  == readLoop(rp, retbytes, l, lo, mid)
       IN  readLoop(rp, retbytes, l1, mid, hi)

\* how many of the reply's bytes arrived: the reads that returned a byte
Arrived(rp, reads) == Cardinality({k \in 1..reads : Rd(rp, k).n = 1})

readCmdReturn(st, rp, retbytes, dest) ==
  LET r == readLoop(rp, retbytes,
                    [reads |-> 0, rcvd |-> U32(0), data |-> dest, oob |-> FALSE,
                     done |-> FALSE],
                    0, retbytes)
  IN  [st EXCEPT !.rstat = ~Lt32(r.rcvd, U32(retbytes)),
                 !.data  = r.data,
                 !.oob   = @ \/ r.oob,
                 !.acked = LET a == Arrived(rp, r.reads) >= retbytes
                           IN  [@ EXCEPT !.last = a, !.all = @ /\ a],
                 !.io    = Append(@, ReadEv(r.reads))]

\* a slip: the input flushed a second time before the frame is written
communicate_twoflush(st, cmd, fl, rp, retbytes, dest) ==
  LET s1 == clearUSB(clearUSB(st, fl), fl)
      s2 == IF Len(cmd) > 0 THEN sendCmd(s1, cmd) ELSE s1
  IN  IF retbytes > 0 THEN readCmdReturn(s2, rp, retbytes, dest)
      ELSE [s2 EXCEPT !.data = dest]

(* communicate: flush, write the frame if there is one, read the reply if   *)
(* one is expected                                                          *)
communicate(st, cmd, fl, rp, retbytes, dest) ==
  LET s1 == clearUSB(st, fl)
      s2 == IF Len(cmd) > 0 THEN sendCmd(s1, cmd) ELSE s1
  IN  IF retbytes > 0 THEN readCmdReturn(s2, rp, retbytes, dest)
      ELSE [s2 EXCEPT !.data = dest]

\* no reply has been missed yet
NoAcks == [last |-> TRUE, all |-> TRUE, writes |-> TRUE]

\* the driver's fields a transport call works on, at the start of a step
Enter(frames, acks) ==
  [err |-> mError_code, rstat |-> mRead_status, sent |-> frames, acked |-> acks,
   io |-> <<>>, data |-> Arr(0, 0), oob |-> FALSE]

\* an uninitialised local array of n chars, every element holding junk
Local(n, junk) == Arr(n, junk)

----------------------------------------------------------------------------
(* The environments the specifications draw from *)

\* n stray bytes pending in the input buffer when a flush starts
Stray(n) == [i \in 1..n |-> Got(0)]

\* the answers to the single read of a one-byte acknowledgement
AckScripts == {<<Got(170)>>, <<Timeout>>, <<ReadErr>>}

----------------------------------------------------------------------------
(* updateConfigurationData: eraseConfigurationData, loadConfigurationData,  *)
(* then the update command. One step per exchange.                          *)

\* a variant: the mirror reset with the device, every byte 0xFF
EraseStep_mirrorreset(fl, rp, junk) ==
  /\ pc = "idle"
  /\ \E s \in {communicate(Enter(<<>>, NoAcks), erase_cfg_cmd, fl, rp, retsize,
                          Local(retsize + 1, junk))} :
         /\ mError_code' = IF s.rstat THEN s.err ELSE "eErase_CFG"
         /\ mRead_status' = s.rstat
         /\ sent' = s.sent
         /\ acked' = s.acked
         /\ io' = s.io
  /\ mCFG_Data' = [i \in 0..(kNVMSize - 1) |-> 255]
  /\ op' = "updateConfigurationData"
  /\ arg' = <<>>
  /\ ret' = <<>>
  /\ idx' = 0
  /\ pc' = "load"
  /\ UNCHANGED <<mCPS_is_on, mBig_endian, charSigned, mHistory_data>>

\* eraseConfigurationData, called first by updateConfigurationData
EraseStep(fl, rp, junk) ==
  /\ pc = "idle"
  /\ \E s \in {communicate(Enter(<<>>, NoAcks), erase_cfg_cmd, fl, rp, retsize,
                          Local(retsize + 1, junk))} :
         /\ mError_code' = IF s.rstat THEN s.err ELSE "eErase_CFG"
         /\ mRead_status' = s.rstat
         /\ sent' = s.sent
         /\ acked' = s.acked
         /\ io' = s.io
  /\ op' = "updateConfigurationData"
  /\ arg' = <<>>
  /\ ret' = <<>>
  /\ idx' = 0
  /\ pc' = "load"
  /\ UNCHANGED <<mCPS_is_on, mBig_endian, charSigned, mCFG_Data, mHistory_data>>

\* one pass of the for loop of loadConfigurationData
LoadStep(fl, rp, junk) ==
  /\ pc = "load"
  /\ idx < kNVMSize
  /\ \E s \in {communicate(Enter(sent, acked), write_cfg_cmd(idx, mCFG_Data[idx]),
                          fl, rp, retsize, Local(retsize + 1, junk))} :
         /\ mError_code' = IF s.rstat THEN s.err ELSE "eWrite_CFG"
         /\ mRead_status' = s.rstat
         /\ sent' = s.sent
         /\ acked' = [s.acked EXCEPT !.writes = @ /\ s.acked.last]
         /\ io' = s.io
         /\ IF s.rstat
            THEN /\ idx' = idx + 1
                 /\ pc' = IF idx + 1 < kNVMSize THEN "load" ELSE "update"
            ELSE /\ idx' = idx
                 /\ pc' = "update"
  /\ UNCHANGED <<mCPS_is_on, mBig_endian, charSigned, mCFG_Data, mHistory_data,
                 op, arg, ret>>

\* the rest of updateConfigurationData, after loadConfigurationData returned
UpdateStep(fl, rp, junk) ==
  /\ pc = "update"
  /\ \E s \in {communicate(Enter(sent, acked), update_cfg_cmd, fl, rp, retsize,
                          Local(retsize + 1, junk))} :
         /\ mError_code' = IF s.rstat THEN s.err ELSE "eUpdate_CFG"
         /\ mRead_status' = s.rstat
         /\ sent' = s.sent
         /\ acked' = s.acked
         /\ io' = s.io
  /\ pc' = "idle"
  /\ UNCHANGED <<mCPS_is_on, mBig_endian, charSigned, mCFG_Data, mHistory_data,
                 op, arg, ret, idx>>

----------------------------------------------------------------------------
(* The commit on its own: every mirror of CommitMirrors, every sequence of  *)
(* acknowledged, timed-out and failed reads.                                *)

MaxStrayCommit == 1

CommitFlush == {Stray(n) : n \in 0..MaxStrayCommit} \cup {Stray(kMaxtries)}

CommitMirrors ==
  { [i \in 0..(kNVMSize - 1) |-> i],
    [i \in 0..(kNVMSize - 1) |-> (7 * i + 85) % 256] }

InitCommit ==
  /\ mError_code \in {"eNoProblem", "eGet_CFG"}
  /\ mRead_status = TRUE
  /\ mCPS_is_on = FALSE
  /\ mBig_endian = FALSE
  /\ charSigned = TRUE
  /\ mCFG_Data \in CommitMirrors
  /\ mHistory_data = Arr(kHistory_Data_Maxsize, 0)
  /\ pc = "idle"
  /\ idx = 0
  /\ op = "none"
  /\ arg = <<>>
  /\ ret = <<>>
  /\ sent = <<>>
  /\ acked = NoAcks
  /\ io = <<>>

NextCommit ==
  \E fl \in CommitFlush, rp \in AckScripts :
    \/ EraseStep(fl, rp, 0)
    \/ LoadStep(fl, rp, 0)
    \/ UpdateStep(fl, rp, 0)

SpecCommit == InitCommit /\ [][NextCommit]_vars

\* updateConfigurationData has returned
CommitDone == pc = "idle" /\ op = "updateConfigurationData"

IsWriteCfg(f) == Len(f) = 9 /\ SubSeq(f, 1, 5) = <<60, 87, 67, 70, 71>>

\* some write-configuration command of this commit was not acknowledged
WriteNotAcked == op = "updateConfigurationData" /\ ~acked.writes

\* C1 (as claimed): in a commit, once a write-configuration command has not
\* been acknowledged, no update-configuration frame is transmitted.
C1_NoUpdateAfterFailedWrite ==
  WriteNotAcked => \A k \in 1..Len(sent) : sent[k] # update_cfg_cmd

\* C2 (as claimed): when updateConfigurationData returns after a write that
\* was not acknowledged, the sticky error code is not eNoProblem.
C2_FailedWriteReported ==
  (CommitDone /\ WriteNotAcked) => mError_code # "eNoProblem"

\* C3: when every frame of the commit is acknowledged, the frames sent are
\* "<ECFG>>", then "<WCFG" offset data ">>" for offset 0, 1, ..., 255 with
\* data = mirror[offset], then "<CFGUPDATE>>", and nothing else.
C3_CommitSequence ==
  (CommitDone /\ acked.all) =>
    /\ Len(sent) = 258
    /\ sent[1] = <<60, 69, 67, 70, 71, 62, 62>>
    /\ \A k \in 0..255 :
         sent[k + 2] = <<60, 87, 67, 70, 71, k, mCFG_Data[k], 62, 62>>
    /\ sent[258] = <<60, 67, 70, 71, 85, 80, 68, 65, 84, 69, 62, 62>>

C3_Witness == CommitDone /\ acked.all /\ Len(sent) = 258 /\ mCFG_Data[1] = 92

----------------------------------------------------------------------------
(* getHistoryData *)

\* the three address bytes appended to "<SPIR": bits 23..16, 15..8, 7..0
packAddress(address) == <<address.hi % 256, address.lo \div 256, address.lo % 256>>

\* a slip: the first length byte taken without its shift
packLength_noshift(length) == <<length.lo % 256, length.lo % 256>>

\* the two length bytes: (length >> 8) & 0xff, then (length >> 0) & 0xff
packLength(length) == <<length.lo \div 256, length.lo % 256>>

\* "<SPIR" address length ">>"
get_history_data_cmd(address, length) ==
  <<60, 83, 80, 73, 82>> \o packAddress(address) \o packLength(length) \o <<62, 62>>

\* a slip: the overrun test left out
historyCheck_nooverrun(address, length) ==
  LET e1 == IF Gt32(length, U32(kHistory_Data_Maxsize))
            THEN "eGet_history_data_length" ELSE "eNoProblem"
  IN  IF Gt32(address, U32(kHistory_Addr_Maxsize))
      THEN "eGet_history_data_address" ELSE e1

\* the validity checks, each overwriting the code the one before it set
historyCheck(address, length) ==
  LET e1 == IF Gt32(length, U32(kHistory_Data_Maxsize))
            THEN "eGet_history_data_length" ELSE "eNoProblem"
      e2 == IF Gt32(address, U32(kHistory_Addr_Maxsize))
            THEN "eGet_history_data_address" ELSE e1
  IN  IF Gt32(Add32(address, length), U32(kHistory_Addr_Maxsize))
      THEN "eGet_history_data_overrun" ELSE e2

\* a slip: the buffer not zeroed before the request is looked at
GetHistoryData_nozero(address, length, fl, rp) ==
  LET e == historyCheck(address, length)
  IN  /\ op' = "getHistoryData"
      /\ arg' = [address |-> address, length |-> length]
      /\ IF e # "eNoProblem"
         THEN /\ mError_code' = e
              /\ ret' = address
              /\ sent' = <<>>
              /\ io' = <<>>
              /\ acked' = NoAcks
              /\ UNCHANGED <<mRead_status, mHistory_data>>
         ELSE \E s \in {communicate([Enter(<<>>, NoAcks) EXCEPT !.err = "eNoProblem"],
                                   get_history_data_cmd(address, length),
                                   fl, rp, length.lo, mHistory_data)} :
                  /\ mError_code' = IF s.rstat THEN s.err ELSE "eGet_history_data"
                  /\ mRead_status' = s.rstat
                  /\ mHistory_data' = s.data
                  /\ ret' = U32(0)
                  /\ sent' = s.sent
                  /\ io' = s.io
                  /\ acked' = s.acked
      /\ UNCHANGED <<mCPS_is_on, mBig_endian, charSigned, mCFG_Data, pc, idx>>

\* ret is the index into mHistory_data of the returned pointer
GetHistoryData(address, length, fl, rp) ==
  LET zeroed == Arr(kHistory_Data_Maxsize, 0)
      e      == historyCheck(address, length)
  IN  /\ op' = "getHistoryData"
      /\ arg' = [address |-> address, length |-> length]
      /\ IF e # "eNoProblem"
         THEN /\ mError_code' = e
              /\ mHistory_data' = zeroed
              /\ ret' = address
              /\ sent' = <<>>
              /\ io' = <<>>
              /\ acked' = NoAcks
              /\ UNCHANGED mRead_status
         ELSE \E s \in {communicate([Enter(<<>>, NoAcks) EXCEPT !.err = "eNoProblem"],
                                   get_history_data_cmd(address, length),
                                   fl, rp, length.lo, zeroed)} :
                  /\ mError_code' = IF s.rstat THEN s.err ELSE "eGet_history_data"
                  /\ mRead_status' = s.rstat
                  /\ mHistory_data' = s.data
                  /\ ret' = U32(0)
                  /\ sent' = s.sent
                  /\ io' = s.io
                  /\ acked' = s.acked
      /\ UNCHANGED <<mCPS_is_on, mBig_endian, charSigned, mCFG_Data, pc, idx>>

----------------------------------------------------------------------------
(* History requests on their own: one call per behaviour, the request drawn *)
(* in the initial state.                                                    *)

\* low halves of the requested addresses and lengths
HistAddrLo == {0, 1, 255, 256, 4660, 61440, 61441, 65000, 65535}
HistLenLo  == {0, 1, 2, 3, 256, 4096, 4097, 65535}

HistRequests ==
  { [address |-> [hi |-> ah, lo |-> al], length |-> [hi |-> lh, lo |-> ll]] :
      ah \in {0, 1, 255, 65535}, al \in HistAddrLo,
      lh \in {0, 1, 65535}, ll \in HistLenLo }

\* the device's k-th history byte
HistByte(k) == (k * 7 + 1) % 256

\* the first n bytes of the reply arrive, then nothing
HistReply(n) == [k \in 1..n |-> Got(HistByte(k))]

MaxHistReply == 2

\* replies to a request of length n: its first bytes (all of them when n is
\* small), or a failed read
HistReplies(n) ==
  {HistReply(k) : k \in {j \in 0..MaxHistReply : j <= n}} \cup {<<ReadErr>>}

\* a buffer that holds bytes of an earlier call
DirtyHistory == [Arr(kHistory_Data_Maxsize, 0) EXCEPT !.w = (0 :> 85) @@ (4095 :> 170)]

InitHistory ==
  /\ mError_code \in {"eNoProblem", "eGet_CPM"}
  /\ mRead_status = TRUE
  /\ mCPS_is_on = FALSE
  /\ mBig_endian = FALSE
  /\ charSigned = TRUE
  /\ mCFG_Data = [i \in 0..(kNVMSize - 1) |-> 0]
  /\ mHistory_data = DirtyHistory
  /\ pc = "idle"
  /\ idx = 0
  /\ op = "none"
  /\ arg \in HistRequests
  /\ ret = <<>>
  /\ sent = <<>>
  /\ acked = NoAcks
  /\ io = <<>>

NextHistory ==
  /\ op = "none"
  /\ \E fl \in {Stray(0), Stray(kMaxtries)}, rp \in HistReplies(arg.length.lo) :
       GetHistoryData(arg.address, arg.length, fl, rp)

SpecHistory == InitHistory /\ [][NextHistory]_vars

\* the request of the call that has returned
HistoryDone == op = "getHistoryData"

\* address + length > 65536, in unbounded arithmetic
SumOver64K(a, l) ==
  LET lo == a.lo + l.lo
      hi == a.hi + l.hi + (lo \div H16)
  IN  hi > 1 \/ (hi = 1 /\ lo % H16 > 0)

\* length > 4096, in unbounded arithmetic
LenOver4K(l) == l.hi > 0 \/ l.lo > 4096

HistoryValidationCodes ==
  {"eGet_history_data_length", "eGet_history_data_address", "eGet_history_data_overrun"}

\* C4: a request with length > 4096 or address + length > 65536 makes no
\* transport call (no flush read, no write, no reply read) and leaves a
\* validation code; address 65536 with length 1 leaves the overrun code, and
\* length 4097 is rejected.
C4_InvalidRequestRejected ==
  (HistoryDone /\ (LenOver4K(arg.length) \/ SumOver64K(arg.address, arg.length))) =>
    /\ io = <<>>
    /\ sent = <<>>
    /\ mError_code \in HistoryValidationCodes
    /\ (arg.address = [hi |-> 1, lo |-> 0] /\ arg.length = [hi |-> 0, lo |-> 1])
         => mError_code = "eGet_history_data_overrun"

C4_Witness ==
  /\ HistoryDone
  /\ arg.address = [hi |-> 1, lo |-> 0]
  /\ arg.length = [hi |-> 0, lo |-> 1]
  /\ mError_code = "eGet_history_data_overrun"
  /\ io = <<>>

\* C5: for a valid request the frame is "<SPIR", 3 address bytes, 2 length
\* bytes, ">>", and the address bytes (most significant first) and the length
\* bytes (as the code packs them: high byte, then low byte) give back the
\* requested address and length.
C5_FrameRoundTrip ==
  (HistoryDone /\ ~LenOver4K(arg.length) /\ ~SumOver64K(arg.address, arg.length)) =>
    /\ Len(sent) = 1
    /\ LET f == sent[1]
       IN  /\ Len(f) = 12
           /\ SubSeq(f, 1, 5) = <<60, 83, 80, 73, 82>>
           /\ SubSeq(f, 11, 12) = <<62, 62>>
           /\ \A k \in 6..10 : f[k] \in Byte
           /\ f[6] * 65536 + f[7] * 256 + f[8]
                = arg.address.hi * 65536 + arg.address.lo
           /\ f[9] * 256 + f[10] = arg.length.lo
           /\ arg.length.hi = 0

C5_Witness ==
  /\ HistoryDone
  /\ arg.address = [hi |-> 0, lo |-> 61440]
  /\ arg.length = [hi |-> 0, lo |-> 4096]
  /\ sent = <<(<<60, 83, 80, 73, 82, 0, 240, 0, 16, 0, 62, 62>>)>>

----------------------------------------------------------------------------
(* The configuration mirror: writeConfigurationData *)

\* offset of each parameter in the configuration data
cfg_param_t ==
  [ePowerOnOff |-> 0, eAlarmOnOff |-> 1, eSpeakerOnOff |-> 2,
   eGraphicModeOnOff |-> 3, eBacklightTimeoutSeconds |-> 4,
   eIdleTitleDisplayMode |-> 5, eAlarmCPMValue |-> 6, eCalibrationCPM0 |-> 8,
   eCalibrationSvUc0 |-> 10, eCalibrationCPM1 |-> 14, eCalibrationSvUc1 |-> 16,
   eCalibrationCPM2 |-> 20, eCalibrationSvUc2 |-> 22, eIdleDisplayMode |-> 26,
   eAlarmValueuSvUc |-> 27, eAlarmType |-> 31, eSaveDataType |-> 32,
   eSwivelDisplay |-> 33, eZoom |-> 34, eDataSaveAddress |-> 38,
   eDataReadAddress |-> 41, eNPowerSavingMode |-> 44, eNSensitivityMode |-> 45,
   eNCounterDelay |-> 46, eNVoltageOffset |-> 48, eMaxCPM |-> 49,
   eNSensitivityAutoModeThreshold |-> 51, eSaveDate |-> 52, eSaveTime |-> 55,
   eMaxBytes |-> 58]

\* number of bytes of each parameter
cfg_bytecnt_t ==
  [ePowerOnOff |-> 1, eAlarmOnOff |-> 1, eSpeakerOnOff |-> 1,
   eGraphicModeOnOff |-> 1, eBacklightTimeoutSeconds |-> 1,
   eIdleTitleDisplayMode |-> 1, eAlarmCPMValue |-> 2, eCalibrationCPM0 |-> 2,
   eCalibrationSvUc0 |-> 4, eCalibrationCPM1 |-> 2, eCalibrationSvUc1 |-> 4,
   eCalibrationCPM2 |-> 2, eCalibrationSvUc2 |-> 4, eIdleDisplayMode |-> 1,
   eAlarmValueuSvUc |-> 4, eAlarmType |-> 1, eSaveDataType |-> 1,
   eSwivelDisplay |-> 1, eZoom |-> 4, eDataSaveAddress |-> 3,
   eDataReadAddress |-> 3, eNPowerSavingMode |-> 1, eNSensitivityMode |-> 1,
   eNCounterDelay |-> 2, eNVoltageOffset |-> 1, eMaxCPM |-> 2,
   eNSensitivityAutoModeThreshold |-> 1, eSaveDate |-> 3, eSaveTime |-> 3,
   eMaxBytes |-> 1]

\* eSaveOff, eCPS, eCPM, eCPH, eMaxSaveDataType
saveDataType_t == 0..4

\* bits 8k .. 8k+7 of a value
ByteOf(value, k) ==
  IF k < 2 THEN (value.lo \div (256 ^ k)) % 256
  ELSE (value.hi \div (256 ^ (k - 2))) % 256

\* the n bytes of an n-byte unsigned value as they lie in the host's memory
HostBytes(value, n, big) ==
  [j \in 0..(n - 1) |-> ByteOf(value, IF big THEN n - 1 - j ELSE j)]

\* a slip: the bytes copied in order on every host
writeConfigurationData_noreverse(m, big, cfgParameter, cfgDataCount, cfgData) ==
  [i \in 0..(kNVMSize - 1) |->
     IF i >= cfgParameter /\ i < cfgParameter + cfgDataCount
     THEN cfgData[i - cfgParameter]
     ELSE m[i]]

\* pCfg_Data[i] = cfgData[i] on a big-endian host, cfgData[cfgDataCount-1-i]
\* otherwise, for i = 0 .. cfgDataCount-1, pCfg_Data = mirror + cfgParameter
writeConfigurationData(m, big, cfgParameter, cfgDataCount, cfgData) ==
  [i \in 0..(kNVMSize - 1) |->
     IF i >= cfgParameter /\ i < cfgParameter + cfgDataCount
     THEN IF big THEN cfgData[i - cfgParameter]
          ELSE cfgData[cfgDataCount - 1 - (i - cfgParameter)]
     ELSE m[i]]

\* mCFG_Data.saveDataType
getSaveDataType(m) == m[cfg_param_t.eSaveDataType]

\* a field of the mirror read most significant byte first, as
\* getDataSaveAddress reads dataSaveAddress2..0
BEByte(m, off, n, k) == IF k < n THEN m[off + n - 1 - k] ELSE 0
ReadBE(m, off, n) ==
  [hi |-> BEByte(m, off, n, 3) * 256 + BEByte(m, off, n, 2),
   lo |-> BEByte(m, off, n, 1) * 256 + BEByte(m, off, n, 0)]

WriteConfigurationData(p, value) ==
  /\ mCFG_Data' = writeConfigurationData(mCFG_Data, mBig_endian, cfg_param_t[p],
                                         cfg_bytecnt_t[p],
                                         HostBytes(value, cfg_bytecnt_t[p], mBig_endian))
  /\ op' = "writeConfigurationData"
  /\ arg' = [param |-> p, value |-> value]
  /\ UNCHANGED <<mError_code, mRead_status, mCPS_is_on, mBig_endian, charSigned,
                 mHistory_data, pc, idx, ret, sent, acked, io>>

SetSaveDataType(newSaveDataType) ==
  LET saveData == newSaveDataType % 256
  IN  /\ mCFG_Data' = writeConfigurationData(mCFG_Data, mBig_endian,
                                             cfg_param_t.eSaveDataType,
                                             cfg_bytecnt_t.eSaveDataType,
                                             [j \in 0..0 |-> saveData])
      /\ op' = "setSaveDataType"
      /\ arg' = [param |-> "eSaveDataType", value |-> U32(newSaveDataType)]
      /\ UNCHANGED <<mError_code, mRead_status, mCPS_is_on, mBig_endian, charSigned,
                     mHistory_data, pc, idx, ret, sent, acked, io>>

----------------------------------------------------------------------------
(* Writes to the mirror on their own: one call per behaviour, on a host of  *)
(* either byte order.                                                       *)

CfgHalves == {0, 1, 16, 128, 255, 256, 4660, 22136, 65535}

\* the values a field of n bytes can hold
CfgValues(n) ==
  { v \in [hi : CfgHalves, lo : CfgHalves] :
      /\ n <= 2 => v.hi = 0
      /\ n = 1 => v.lo < 256
      /\ n = 3 => v.hi < 256 }

InitCfg ==
  /\ mError_code \in {"eNoProblem", "eGet_CFG"}
  /\ mRead_status = TRUE
  /\ mCPS_is_on = FALSE
  /\ mBig_endian \in BOOLEAN
  /\ charSigned = TRUE
  /\ mCFG_Data \in CommitMirrors
  /\ mHistory_data = Arr(kHistory_Data_Maxsize, 0)
  /\ pc = "idle"
  /\ idx = 0
  /\ op = "none"
  /\ arg = <<>>
  /\ ret = <<>>
  /\ sent = <<>>
  /\ acked = NoAcks
  /\ io = <<>>

NextCfg ==
  /\ op = "none"
  /\ \/ \E p \in DOMAIN cfg_param_t : \E value \in CfgValues(cfg_bytecnt_t[p]) :
          WriteConfigurationData(p, value)
     \/ \E x \in saveDataType_t : SetSaveDataType(x)

SpecCfg == InitCfg /\ [][NextCfg]_vars

\* C6: after writeConfigurationData of a field (offset and byte count from
\* the tables) with a value, the field read back from the mirror most
\* significant byte first is the value written, on a little-endian host and on
\* a big-endian host; after setSaveDataType(x), getSaveDataType() is x.
C6_WriteReadRoundTrip ==
  /\ op = "writeConfigurationData" =>
       ReadBE(mCFG_Data, cfg_param_t[arg.param], cfg_bytecnt_t[arg.param]) = arg.value
  /\ op = "setSaveDataType" =>
       /\ getSaveDataType(mCFG_Data) = arg.value.lo
       /\ arg.value.hi = 0

C6_Witness ==
  /\ op = "writeConfigurationData"
  /\ ~mBig_endian
  /\ arg.param = "eZoom"
  /\ arg.value = [hi |-> 4660, lo |-> 22136]
  /\ <<mCFG_Data[34], mCFG_Data[35], mCFG_Data[36], mCFG_Data[37]>> = <<18, 52, 86, 120>>

----------------------------------------------------------------------------
(* Fixed-size replies: getVersion, getCPM, getCPS, getAutoCPS,              *)
(* getBatteryVoltage                                                        *)

\* uint16_t(c) of a plain char holding byte c: sign-extended where char is signed
toUint16(c, signed) == IF signed /\ c >= 128 THEN c + 65280 ELSE c

\* a slip: the bits of a signed char kept as they are
toInt16_nosign(c, signed) == c

\* int16_t(c) of a plain char holding byte c
toInt16(c, signed) == IF signed /\ c >= 128 THEN c - 256 ELSE c

RECURSIVE BitAnd(_, _)
BitAnd(a, b) ==
  IF a = 0 \/ b = 0 THEN 0
  ELSE (a % 2) * (b % 2) + 2 * BitAnd(a \div 2, b \div 2)

RECURSIVE BitOr(_, _)
BitOr(a, b) ==
  IF a = 0 THEN b ELSE IF b = 0 THEN a
  ELSE (IF a % 2 = 1 \/ b % 2 = 1 THEN 1 ELSE 0) + 2 * BitOr(a \div 2, b \div 2)

\* a slip: the whole high byte kept
decodeCount_nomask(c0, c1, signed) ==
  LET hi == BitAnd(toUint16(c0, signed) * 256, 65280)
      lo == BitAnd(toUint16(c1, signed), 255)
  IN  BitOr(BitOr(0, hi), lo) % 65536

\* cpm_int |= ((uint16_t(c0) << 8) & 0x3f00); cpm_int |= (uint16_t(c1) & 0x00ff)
decodeCount(c0, c1, signed) ==
  LET hi == BitAnd(toUint16(c0, signed) * 256, 16128)
      lo == BitAnd(toUint16(c1, signed), 255)
  IN  BitOr(BitOr(0, hi), lo) % 65536

\* a float result, as numerator over denominator
Ratio(n, d) == [num |-> n, den |-> d]

\* the characters of a char array up to its first '\0'; overrun when the
\* array holds none
RECURSIVE cstr(_, _)
cstr(a, i) ==
  IF i >= a.size THEN [text |-> <<>>, overrun |-> TRUE]
  ELSE IF Elem(a, i) = 0 THEN [text |-> <<>>, overrun |-> FALSE]
  ELSE LET r == cstr(a, i + 1)
       IN  [text |-> <<Elem(a, i)>> \o r.text, overrun |-> r.overrun]

\* ss >> version: the characters of the text, then '\0'
RECURSIVE storeString(_, _, _)
storeString(a, text, i) ==
  IF i > Len(text) THEN Store(a, Len(text), 0)
  ELSE storeString(Store(a, i - 1, text[i]), text, i + 1)

\* "invalidinvalid"
invalid_version == <<105, 110, 118, 97, 108, 105, 100, 105, 110, 118, 97, 108, 105, 100>>

\* tail: what string(version) reads beyond the array when it holds no '\0'
GetVersion(fl, rp, junk, tail) ==
  \E s \in {communicate(Enter(<<>>, NoAcks), get_version_cmd, fl, rp, versize,
                        Local(versize + 1, junk))} :
    \E str \in {cstr(IF s.rstat THEN s.data
                     ELSE storeString(s.data, invalid_version, 1), 0)} :
      /\ mError_code' = IF s.rstat THEN s.err ELSE "eGet_version"
      /\ mRead_status' = s.rstat
      /\ ret' = [text |-> str.text \o (IF str.overrun THEN tail ELSE <<>>),
                 overrun |-> str.overrun]
      /\ op' = "getVersion"
      /\ sent' = s.sent
      /\ io' = s.io
      /\ acked' = s.acked
      /\ UNCHANGED <<mCPS_is_on, mBig_endian, charSigned, mCFG_Data, mHistory_data,
                     pc, idx, arg>>

\* a variant: a discrete query refused while streaming is on
GetCount_refused(name, cmd, code, fl, rp, junk) ==
  \E s \in {IF mCPS_is_on
            THEN [Enter(<<>>, NoAcks) EXCEPT !.rstat = FALSE,
                                             !.data = Local(cpmsize + 1, junk)]
            ELSE communicate(Enter(<<>>, NoAcks), cmd, fl, rp, cpmsize,
                             Local(cpmsize + 1, junk))} :
      /\ mError_code' = IF s.rstat THEN s.err ELSE code
      /\ mRead_status' = s.rstat
      /\ ret' = IF s.rstat
                THEN decodeCount(Elem(s.data, 0), Elem(s.data, 1), charSigned)
                ELSE 0
      /\ op' = name
      /\ sent' = s.sent
      /\ io' = s.io
      /\ acked' = s.acked
      /\ UNCHANGED <<mCPS_is_on, mBig_endian, charSigned, mCFG_Data, mHistory_data,
                     pc, idx, arg>>

\* getCPM and getCPS differ in the frame and in the error code only
GetCount(name, cmd, code, fl, rp, junk) ==
  \E s \in {communicate(Enter(<<>>, NoAcks), cmd, fl, rp, cpmsize,
                       Local(cpmsize + 1, junk))} :
      /\ mError_code' = IF s.rstat THEN s.err ELSE code
      /\ mRead_status' = s.rstat
      /\ ret' = IF s.rstat
                THEN decodeCount(Elem(s.data, 0), Elem(s.data, 1), charSigned)
                ELSE 0
      /\ op' = name
      /\ sent' = s.sent
      /\ io' = s.io
      /\ acked' = s.acked
      /\ UNCHANGED <<mCPS_is_on, mBig_endian, charSigned, mCFG_Data, mHistory_data,
                     pc, idx, arg>>

GetCPM(fl, rp, junk) == GetCount("getCPM", get_cpm_cmd, "eGet_CPM", fl, rp, junk)

GetCPS(fl, rp, junk) == GetCount("getCPS", get_cps_cmd, "eGet_CPS", fl, rp, junk)

\* a slip: the streamed sample fetched by a full exchange, as getCPS does
GetAutoCPS_exchange(rp, junk) ==
  \E s \in {communicate(Enter(<<>>, NoAcks), get_cps_cmd, <<>>, rp, cpmsize,
                        Local(cpmsize + 1, junk))} :
      /\ mError_code' = IF s.rstat THEN s.err ELSE "eGet_AutoCPS"
      /\ mRead_status' = s.rstat
      /\ ret' = IF s.rstat
                THEN decodeCount(Elem(s.data, 0), Elem(s.data, 1), charSigned)
                ELSE 0
      /\ op' = "getAutoCPS"
      /\ sent' = s.sent
      /\ io' = s.io
      /\ acked' = s.acked
      /\ UNCHANGED <<mCPS_is_on, mBig_endian, charSigned, mCFG_Data, mHistory_data,
                     pc, idx, arg>>

\* no flush and no frame: readCmdReturn only
GetAutoCPS(rp, junk) ==
  \E s \in {readCmdReturn(Enter(<<>>, NoAcks), rp, cpmsize, Local(cpmsize + 1, junk))} :
      /\ mError_code' = IF s.rstat THEN s.err ELSE "eGet_AutoCPS"
      /\ mRead_status' = s.rstat
      /\ ret' = IF s.rstat
                THEN decodeCount(Elem(s.data, 0), Elem(s.data, 1), charSigned)
                ELSE 0
      /\ op' = "getAutoCPS"
      /\ sent' = s.sent
      /\ io' = s.io
      /\ acked' = s.acked
      /\ UNCHANGED <<mCPS_is_on, mBig_endian, charSigned, mCFG_Data, mHistory_data,
                     pc, idx, arg>>

GetBatteryVoltage(fl, rp, junk) ==
  \E s \in {communicate(Enter(<<>>, NoAcks), get_voltage_cmd, fl, rp, voltsize,
                       Local(voltsize + 1, junk))} :
      /\ mError_code' = IF s.rstat THEN s.err ELSE "eGet_battery_voltage"
      /\ mRead_status' = s.rstat
      /\ ret' = IF s.rstat
                THEN Ratio(toInt16(Elem(s.data, 0), charSigned), 10)
                ELSE Ratio(0, 1)
      /\ op' = "getBatteryVoltage"
      /\ sent' = s.sent
      /\ io' = s.io
      /\ acked' = s.acked
      /\ UNCHANGED <<mCPS_is_on, mBig_endian, charSigned, mCFG_Data, mHistory_data,
                     pc, idx, arg>>

----------------------------------------------------------------------------
(* The fixed-size queries on their own: one call per behaviour, the reply   *)
(* script drawn in the initial state, the build's char signed or unsigned.  *)

\* "GMC-300Re 4.22"
VersionText == <<71, 77, 67, 45, 51, 48, 48, 82, 101, 32, 52, 46, 50, 50>>

Gots(bytes) == [k \in 1..Len(bytes) |-> Got(bytes[k])]

MaxVersionShort == 1

\* replies to the version query: complete, cut short, late, or with a failed read
VersionReplies ==
  {Gots(VersionText), Gots(SubSeq(VersionText, 1, versize - 1)),
   <<Timeout>> \o Gots(VersionText), <<ReadErr>>, <<Got(71), ReadErr>>} \cup
  {Gots(SubSeq(VersionText, 1, k)) : k \in 0..MaxVersionShort}

CountLowSamples == {0, 52, 128, 255}
CountHighSamples == {18, 192}

\* two-byte replies
CountReplies ==
  {<<Got(b0), Got(b1)>> : b0 \in Byte, b1 \in CountLowSamples} \cup
  {<<Got(b0), Got(b1)>> : b0 \in CountHighSamples, b1 \in Byte}

\* one-byte replies
VoltReplies == {<<Got(b)>> : b \in Byte}

\* what an uninitialised local array may hold
JunkBytes == {0, 65}

InitQuery ==
  /\ mError_code \in {"eNoProblem", "eGet_CFG"}
  /\ mRead_status = TRUE
  /\ mCPS_is_on = FALSE
  /\ mBig_endian = FALSE
  /\ charSigned \in BOOLEAN
  /\ mCFG_Data = [i \in 0..(kNVMSize - 1) |-> 0]
  /\ mHistory_data = Arr(kHistory_Data_Maxsize, 0)
  /\ pc = "idle"
  /\ idx = 0
  /\ op = "none"
  /\ arg \in VersionReplies \cup CountReplies \cup VoltReplies
  /\ ret = <<>>
  /\ sent = <<>>
  /\ acked = NoAcks
  /\ io = <<>>

NextQuery ==
  /\ op = "none"
  /\ \E fl \in {Stray(0), Stray(kMaxtries)}, junk \in JunkBytes :
       \/ \E tail \in {<<>>, <<junk>>} : GetVersion(fl, arg, junk, tail)
       \/ GetCPM(fl, arg, junk)
       \/ GetCPS(fl, arg, junk)
       \/ GetAutoCPS(arg, junk)
       \/ GetBatteryVoltage(fl, arg, junk)

SpecQuery == InitQuery /\ [][NextQuery]_vars

\* the first n reads of the script each deliver a byte
Delivers(script, n) == Len(script) >= n /\ \A k \in 1..n : script[k].n = 1

\* C7: for every 2-byte reply (b0, b1), getCPM, getCPS and getAutoCPS return
\* (b0 mod 64) * 256 + b1, a value in 0..16383 in which the two top bits of
\* b0 do not appear; the reply 0x12 0x34 gives 0x1234.
C7_CountDecode ==
  (op \in {"getCPM", "getCPS", "getAutoCPS"} /\ Delivers(arg, 2)) =>
    LET b0 == arg[1].b
        b1 == arg[2].b
    IN  /\ ret = (b0 % 64) * 256 + b1
        /\ ret \in 0..16383
        /\ (b0 = 18 /\ b1 = 52) => ret = 4660

C7_Witness ==
  /\ op = "getAutoCPS"
  /\ arg = <<Got(210), Got(52)>>
  /\ charSigned
  /\ ret = 4660

\* C8: when fewer than 14 bytes arrive in reply to the version query,
\* getVersion returns the text "invalidinvalid" and the error code afterwards
\* is eGet_version.
C8_ShortVersionReply ==
  (op = "getVersion" /\ ~acked.last) =>
    /\ ret = [text |-> invalid_version, overrun |-> FALSE]
    /\ mError_code = "eGet_version"

\* C9 as stated: for every reply byte b, getBatteryVoltage returns s / 10
\* where s is b taken as a signed 8-bit value; the reply 0x60 gives 9.6.
C9_SignedVoltage ==
  (op = "getBatteryVoltage" /\ Delivers(arg, 1)) =>
    LET b == arg[1].b
    IN  ret = Ratio(IF b >= 128 THEN b - 256 ELSE b, 10)

\* C9 amended: for every reply byte b, getBatteryVoltage returns s / 10 where
\* s is b taken as a signed 8-bit value in a build whose plain char is signed
\* and b itself (0..255) in a build whose plain char is unsigned; the reply
\* 0x60 gives 9.6 in both.
C9_VoltageOfPlainChar ==
  (op = "getBatteryVoltage" /\ Delivers(arg, 1)) =>
    LET b == arg[1].b
    IN  /\ charSigned => ret = Ratio(IF b >= 128 THEN b - 256 ELSE b, 10)
        /\ ~charSigned => ret = Ratio(b, 10)
        /\ b = 96 => ret = Ratio(96, 10)

C9_Witness ==
  /\ op = "getBatteryVoltage"
  /\ arg = <<Got(200)>>
  /\ charSigned
  /\ ret = Ratio(-56, 10)

----------------------------------------------------------------------------
(* The history log: what the device records, as the documentation of        *)
(* getHistoryData gives it, and its decoding.                               *)

\* a slip: the end of sequence marker left out
TimestampRecord_noend(t) ==
  <<85, 170, 0, t.year, t.month, t.day, t.hour, t.minute, t.second, t.mode>>

\* 55AA00YYMMDDHHMMSS55AADD
TimestampRecord(t) ==
  <<85, 170, 0, t.year, t.month, t.day, t.hour, t.minute, t.second, 85, 170, t.mode>>

\* 55AA01DHDL
WidenedRecord(v) == <<85, 170, 1, v \div 256, v % 256>>

\* 55AA02LLCCCC...
LabelRecord(text) == <<85, 170, 2, Len(text)>> \o text

\* the bytes the device records for one entry of its log
EncodeEntry(e) ==
  CASE e.kind = "timestamp" -> TimestampRecord(e)
    [] e.kind = "widened"   -> WidenedRecord(e.value)
    [] e.kind = "label"     -> LabelRecord(e.text)
    [] OTHER                -> <<e.value>>

RECURSIVE EncodeLog(_)
EncodeLog(log) ==
  IF log = <<>> THEN <<>> ELSE EncodeEntry(Head(log)) \o EncodeLog(Tail(log))

\* the logging mode before any timestamp has been seen
NoMode == -1

\* the elements of a decoded history
Sample(v, mode) == [kind |-> "sample", value |-> v, mode |-> mode]
Widened(v, mode) == [kind |-> "widened", value |-> v, mode |-> mode]
Label(text) == [kind |-> "label", text |-> text]
Timestamp(b, i) ==
  [kind |-> "timestamp", year |-> b[i + 3], month |-> b[i + 4], day |-> b[i + 5],
   hour |-> b[i + 6], minute |-> b[i + 7], second |-> b[i + 8], mode |-> b[i + 11]]

\* the walk over the buffer from position i, mode being the active logging
\* mode: a marker that fits in the buffer is decoded by its code byte, any
\* other byte is a plain sample
RECURSIVE decodeFrom(_, _, _)
decodeFrom(b, i, mode) ==
  LET n      == Len(b)
      marker == i + 2 <= n /\ b[i] = 85 /\ b[i + 1] = 170
      code   == b[i + 2]
  IN  IF i > n THEN <<>>
      ELSE IF marker /\ code = 0 /\ i + 11 <= n
      THEN <<Timestamp(b, i)>> \o decodeFrom(b, i + 12, b[i + 11])
      ELSE IF marker /\ code = 1 /\ i + 4 <= n
      THEN <<Widened(b[i + 3] * 256 + b[i + 4], mode)>> \o decodeFrom(b, i + 5, mode)
      ELSE IF marker /\ code = 2 /\ i + 3 <= n /\ i + 3 + b[i + 3] <= n
      THEN <<Label(SubSeq(b, i + 4, i + 3 + b[i + 3]))>>
             \o decodeFrom(b, i + 4 + b[i + 3], mode)
      ELSE <<Sample(b[i], mode)>> \o decodeFrom(b, i + 1, mode)

decodeHistory(b) == decodeFrom(b, 1, NoMode)

\* the first length bytes of the history buffer
HistoryBytes(a, length) == [k \in 1..length |-> Elem(a, k - 1)]

\* the history buffer holding the bytes of a reply
HistoryHolding(bytes) ==
  [Arr(kHistory_Data_Maxsize, 0) EXCEPT !.w = [i \in 0..(Len(bytes) - 1) |-> bytes[i + 1]]]

DecodeHistory ==
  /\ ret' = decodeHistory(HistoryBytes(mHistory_data, arg.length))
  /\ op' = "decodeHistory"
  /\ UNCHANGED <<mError_code, mRead_status, mCPS_is_on, mBig_endian, charSigned,
                 mCFG_Data, mHistory_data, pc, idx, arg, sent, acked, io>>

----------------------------------------------------------------------------
(* Decoding on its own: the buffer holds the bytes of a device log drawn in *)
(* the initial state; arg keeps the log the bytes were recorded from.       *)

LogTimestamp(y, mo, mode) ==
  [kind |-> "timestamp", year |-> y, month |-> mo, day |-> 14, hour |-> 9,
   minute |-> 26, second |-> 85, mode |-> mode]

LogSample(v) == [kind |-> "sample", value |-> v]

\* timestamps, one of them with the bytes 0x55 0xAA among its fields
LogTimestamps == {LogTimestamp(yy[1], yy[2], mode) : yy \in {<<17, 3>>, <<85, 170>>},
                                                   mode \in 0..3}

\* sample values, the marker's two bytes and the fill byte 0xFF among them
PlainBytes == {0, 30, 85, 170, 255}

MaxPlain == 3

RECURSIVE SeqsUpTo(_, _)
SeqsUpTo(S, n) ==
  IF n = 0 THEN {<<>>}
  ELSE LET shorter == SeqsUpTo(S, n - 1)
       IN  shorter \cup {Append(q, x) : q \in {t \in shorter : Len(t) = n - 1}, x \in S}

PlainLogs == {[k \in 1..Len(q) |-> LogSample(q[k])] : q \in SeqsUpTo(PlainBytes, MaxPlain)}

\* logs with other entries: a widened sample, a label, a second timestamp
MixedLogs ==
  {<<LogTimestamp(17, 3, 2), LogSample(30), [kind |-> "widened", value |-> 4660],
     LogSample(0)>>,
   <<LogSample(30), [kind |-> "label", text |-> <<71, 81>>], LogSample(255)>>,
   <<LogTimestamp(17, 3, 1), LogSample(2), LogTimestamp(17, 3, 2), LogSample(30)>>}

Logs == PlainLogs \cup {<<t>> \o q : t \in LogTimestamps, q \in PlainLogs} \cup MixedLogs

InitDecode ==
  /\ mError_code = "eNoProblem"
  /\ mRead_status = TRUE
  /\ mCPS_is_on = FALSE
  /\ mBig_endian = FALSE
  /\ charSigned = TRUE
  /\ mCFG_Data = [i \in 0..(kNVMSize - 1) |-> 0]
  /\ \E log \in Logs :
       /\ arg = [log |-> log, length |-> Len(EncodeLog(log))]
       /\ mHistory_data = HistoryHolding(EncodeLog(log))
  /\ pc = "idle"
  /\ idx = 0
  /\ op = "none"
  /\ ret = <<>>
  /\ sent = <<>>
  /\ acked = NoAcks
  /\ io = <<>>

NextDecode == op = "none" /\ DecodeHistory

SpecDecode == InitDecode /\ [][NextDecode]_vars

\* the log is one timestamp followed by plain sample bytes among which the
\* marker 0x55 0xAA does not occur
OneTimestampThenPlain(log) ==
  /\ Len(log) >= 1
  /\ log[1].kind = "timestamp"
  /\ \A k \in 2..Len(log) : log[k].kind = "sample"
  /\ \A k \in 2..(Len(log) - 1) : ~(log[k].value = 85 /\ log[k + 1].value = 170)

----------------------------------------------------------------------------
(* The remaining device operations: getSerialNumber, turnOnCPS, turnOffCPS, *)
(* turnOffPower, sendKey, setDate, setTime                                   *)

\* "<GETSERIAL>>"
get_serial_cmd == <<60, 71, 69, 84, 83, 69, 82, 73, 65, 76, 62, 62>>
\* "<GETCFG>>"
get_cfg_cmd == <<60, 71, 69, 84, 67, 70, 71, 62, 62>>
\* "<HEARTBEAT1>>"
turn_on_cps_cmd == <<60, 72, 69, 65, 82, 84, 66, 69, 65, 84, 49, 62, 62>>
\* "<HEARTBEAT0>>"
turn_off_cps_cmd == <<60, 72, 69, 65, 82, 84, 66, 69, 65, 84, 48, 62, 62>>
\* "<POWEROFF>>"
turn_off_pwr_cmd == <<60, 80, 79, 87, 69, 82, 79, 70, 70, 62, 62>>

sernumsize == 7

\* eKey1 .. eKey4: '0' .. '3'
softkey_t == 48..51

\* ss << hex << uint16_t(nibble): one lower-case hexadecimal digit
HexDigit(n) == IF n < 10 THEN 48 + n ELSE 87 + n

\* the two nibbles of each of the first n bytes, as hexadecimal text
RECURSIVE serialText(_, _, _, _)
serialText(a, i, n, signed) ==
  IF i >= n THEN <<>>
  ELSE LET c  == toUint16(Elem(a, i), signed)
           hi == BitAnd(c, 240) \div 16
           lo == BitAnd(c, 15)
       IN  <<HexDigit(hi), HexDigit(lo)>> \o serialText(a, i + 1, n, signed)

GetSerialNumber(fl, rp, junk) ==
  \E s \in {communicate(Enter(<<>>, NoAcks), get_serial_cmd, fl, rp, sernumsize,
                        Local(sernumsize + 1, junk))} :
      /\ mError_code' = IF s.rstat THEN s.err ELSE "eGet_serial_number"
      /\ mRead_status' = s.rstat
      /\ ret' = IF s.rstat THEN serialText(s.data, 0, sernumsize, charSigned) ELSE <<>>
      /\ op' = "getSerialNumber"
      /\ sent' = s.sent
      /\ io' = s.io
      /\ acked' = s.acked
      /\ UNCHANGED <<mCPS_is_on, mBig_endian, charSigned, mCFG_Data, mHistory_data,
                     pc, idx, arg>>

\* sendCmd only: no flush before the frame, no reply read
TurnOnCPS ==
  \E s \in {sendCmd(Enter(<<>>, NoAcks), turn_on_cps_cmd)} :
      /\ mError_code' = s.err
      /\ mRead_status' = s.rstat
      /\ mCPS_is_on' = TRUE
      /\ op' = "turnOnCPS"
      /\ ret' = <<>>
      /\ sent' = s.sent
      /\ io' = s.io
      /\ acked' = s.acked
      /\ UNCHANGED <<mBig_endian, charSigned, mCFG_Data, mHistory_data, pc, idx, arg>>

\* sendCmd, then the flush
TurnOffCPS(fl) ==
  \E s \in {clearUSB(sendCmd(Enter(<<>>, NoAcks), turn_off_cps_cmd), fl)} :
      /\ mError_code' = s.err
      /\ mRead_status' = s.rstat
      /\ mCPS_is_on' = FALSE
      /\ op' = "turnOffCPS"
      /\ ret' = <<>>
      /\ sent' = s.sent
      /\ io' = s.io
      /\ acked' = s.acked
      /\ UNCHANGED <<mBig_endian, charSigned, mCFG_Data, mHistory_data, pc, idx, arg>>

TurnOffPower ==
  \E s \in {sendCmd(Enter(<<>>, NoAcks), turn_off_pwr_cmd)} :
      /\ mError_code' = s.err
      /\ mRead_status' = s.rstat
      /\ op' = "turnOffPower"
      /\ ret' = <<>>
      /\ sent' = s.sent
      /\ io' = s.io
      /\ acked' = s.acked
      /\ UNCHANGED <<mCPS_is_on, mBig_endian, charSigned, mCFG_Data, mHistory_data,
                     pc, idx, arg>>

\* "<KEY" key ">>", no reply expected
SendKey(key, fl) ==
  \E s \in {communicate(Enter(<<>>, NoAcks), <<60, 75, 69, 89, key % 256, 62, 62>>,
                        fl, <<>>, 0, Local(1, 0))} :
      /\ mError_code' = s.err
      /\ mRead_status' = s.rstat
      /\ op' = "sendKey"
      /\ ret' = <<>>
      /\ sent' = s.sent
      /\ io' = s.io
      /\ acked' = s.acked
      /\ UNCHANGED <<mCPS_is_on, mBig_endian, charSigned, mCFG_Data, mHistory_data,
                     pc, idx, arg>>

IsDigit(c) == c \in 48..57

\* a slip: only the first character extracted
parseTwo_first(c1, c2) == IF ~IsDigit(c1) THEN 0 ELSE c1 - 48

\* ss << c1 << c2; ss >> value (uint16_t, initially 0), for characters that
\* are digits or letters: the leading digits in decimal, 0 when there is none
parseTwo(c1, c2) ==
  IF ~IsDigit(c1) THEN 0
  ELSE IF ~IsDigit(c2) THEN c1 - 48
  ELSE (c1 - 48) * 10 + (c2 - 48)

\* prefix, uint8_t(value), ">>"
setFrame(prefix, value) == prefix \o <<value % 256, 62, 62>>

\* three exchanges, each a flush, a frame and a one-byte reply read into
\* ret_char; rps are the three reply scripts
setThree(prefixes, text, fl, rps, junk) ==
  LET s1 == communicate(Enter(<<>>, NoAcks),
                        setFrame(prefixes[1], parseTwo(text[1], text[2])),
                        fl, rps[1], retsize, Local(retsize + 1, junk))
      s2 == communicate(s1, setFrame(prefixes[2], parseTwo(text[3], text[4])),
                        fl, rps[2], retsize, s1.data)
  IN  communicate(s2, setFrame(prefixes[3], parseTwo(text[5], text[6])),
                  fl, rps[3], retsize, s2.data)

\* "<SETDATEMM", "<SETDATEDD", "<SETDATEYY"
setDateCmds ==
  << <<60, 83, 69, 84, 68, 65, 84, 69, 77, 77>>,
     <<60, 83, 69, 84, 68, 65, 84, 69, 68, 68>>,
     <<60, 83, 69, 84, 68, 65, 84, 69, 89, 89>> >>

\* "<SETTIMEHH", "<SETTIMEMM", "<SETTIMESS"
setTimeCmds ==
  << <<60, 83, 69, 84, 84, 73, 77, 69, 72, 72>>,
     <<60, 83, 69, 84, 84, 73, 77, 69, 77, 77>>,
     <<60, 83, 69, 84, 84, 73, 77, 69, 83, 83>> >>

\* a variant: a missing last reply reported with the code of its field
SetThree_reporting(name, prefixes, text, fl, rps, junk) ==
  \E s \in {setThree(prefixes, text, fl, rps, junk)} :
      /\ mError_code' = IF s.rstat THEN s.err
                        ELSE IF name = "setDate" THEN "eSet_Year" ELSE "eSet_Second"
      /\ mRead_status' = s.rstat
      /\ op' = name
      /\ arg' = text
      /\ ret' = <<>>
      /\ sent' = s.sent
      /\ io' = s.io
      /\ acked' = s.acked
      /\ UNCHANGED <<mCPS_is_on, mBig_endian, charSigned, mCFG_Data, mHistory_data,
                     pc, idx>>

SetThree(name, prefixes, text, fl, rps, junk) ==
  \E s \in {setThree(prefixes, text, fl, rps, junk)} :
      /\ mError_code' = s.err
      /\ mRead_status' = s.rstat
      /\ op' = name
      /\ arg' = text
      /\ ret' = <<>>
      /\ sent' = s.sent
      /\ io' = s.io
      /\ acked' = s.acked
      /\ UNCHANGED <<mCPS_is_on, mBig_endian, charSigned, mCFG_Data, mHistory_data,
                     pc, idx>>

SetDate(date, fl, rps, junk) == SetThree("setDate", setDateCmds, date, fl, rps, junk)

SetTime(time, fl, rps, junk) == SetThree("setTime", setTimeCmds, time, fl, rps, junk)

----------------------------------------------------------------------------
(* A session: the device operations called one after another in any order,  *)
(* each with a reply that is complete, cut short, missing or a failed read. *)

\* 7 bytes of serial number
SerialBytes == <<1, 35, 69, 103, 137, 171, 205>>

\* replies to a command whose complete reply is full
SessionReplies(full) ==
  {Gots(full), Gots(SubSeq(full, 1, Len(full) - 1)), <<>>, <<ReadErr>>}

SessionFlush == {Stray(0), Stray(kMaxtries)}

\* a valid request and a rejected one
SessionRequests ==
  {[address |-> U32(0), length |-> U32(2)],
   [address |-> U32(kHistory_Addr_Maxsize), length |-> U32(1)]}

\* the three replies of setDate and setTime
SetReplies ==
  {<<(<<Got(170)>>), <<Got(170)>>, <<Got(170)>>>>,
   <<(<<Got(170)>>), <<>>, <<Got(170)>>>>,
   <<(<<ReadErr>>), <<Got(170)>>, <<>>>>}

\* "013113", "133000"
SessionDates == {<<48, 49, 51, 49, 49, 51>>}
SessionTimes == {<<49, 51, 51, 48, 48, 48>>}

InitSession ==
  /\ mError_code = "eNoProblem"
  /\ mRead_status = TRUE
  /\ mCPS_is_on = FALSE
  /\ mBig_endian = FALSE
  /\ charSigned = TRUE
  /\ mCFG_Data = [i \in 0..(kNVMSize - 1) |-> 0]
  /\ mHistory_data = Arr(kHistory_Data_Maxsize, 0)
  /\ pc = "idle"
  /\ idx = 0
  /\ op = "none"
  /\ arg = <<>>
  /\ ret = <<>>
  /\ sent = <<>>
  /\ acked = NoAcks
  /\ io = <<>>

NextSession ==
  \E fl \in SessionFlush, junk \in {65} :
    \/ \E rp \in SessionReplies(VersionText), tail \in {<<junk>>} :
         GetVersion(fl, rp, junk, tail)
    \/ \E rp \in SessionReplies(SerialBytes) : GetSerialNumber(fl, rp, junk)
    \/ \E rp \in SessionReplies(<<0, 30>>) : GetCPM(fl, rp, junk)
    \/ \E rp \in SessionReplies(<<0, 30>>) : GetCPS(fl, rp, junk)
    \/ \E rp \in SessionReplies(<<0, 30>>) : GetAutoCPS(rp, junk)
    \/ \E rp \in SessionReplies(<<96>>) : GetBatteryVoltage(fl, rp, junk)
    \/ \E rq \in SessionRequests : \E rp \in SessionReplies(HistReply(rq.length.lo)) :
         GetHistoryData(rq.address, rq.length, fl, rp)
    \/ \E key \in {48, 51} : SendKey(key, fl)
    \/ \E date \in SessionDates, rps \in SetReplies : SetDate(date, fl, rps, junk)
    \/ \E time \in SessionTimes, rps \in SetReplies : SetTime(time, fl, rps, junk)
    \/ TurnOnCPS
    \/ TurnOffCPS(fl)
    \/ TurnOffPower

SpecSession == InitSession /\ [][NextSession]_vars

\* the operations that talk to the device
DeviceOps ==
  {"getVersion", "getSerialNumber", "getCPM", "getCPS", "getAutoCPS",
   "getBatteryVoltage", "getHistoryData", "sendKey", "setDate", "setTime",
   "turnOnCPS", "turnOffCPS", "turnOffPower"}

\* the call that has returned got every reply byte it asked for, was not
\* rejected, and its closing flush (turnOffCPS) drained the input
Succeeded ==
  /\ acked.all
  /\ op = "getHistoryData" => sent # <<>>
  /\ op = "turnOffCPS" => io[Len(io)].reads < kMaxtries

\* C12: the error code is reset at the start of each command: after a device
\* operation that succeeds the code is eNoProblem, also when the operation
\* before it had failed and left its code.
C12_CodeResetOnSuccess ==
  [][(mError_code # "eNoProblem" /\ op' \in DeviceOps /\ Succeeded')
       => mError_code' = "eNoProblem"]_vars

\* what each fixed-size query returns, and the code it leaves, when its
\* reply is short
ShortReadFallback ==
  [getCPM            |-> [ret |-> 0, code |-> "eGet_CPM"],
   getCPS            |-> [ret |-> 0, code |-> "eGet_CPS"],
   getAutoCPS        |-> [ret |-> 0, code |-> "eGet_AutoCPS"],
   getBatteryVoltage |-> [ret |-> Ratio(0, 1), code |-> "eGet_battery_voltage"],
   getSerialNumber   |-> [ret |-> <<>>, code |-> "eGet_serial_number"]]

\* C13: when fewer bytes than expected arrive, getCPM, getCPS, getAutoCPS and
\* getBatteryVoltage return 0 and getSerialNumber returns the empty text, and
\* each leaves its own error code.
C13_ShortReadFallback ==
  (op \in DOMAIN ShortReadFallback /\ ~acked.last) =>
    /\ ret = ShortReadFallback[op].ret
    /\ mError_code = ShortReadFallback[op].code

\* C14: every frame the driver transmits is preceded, in the same operation,
\* by an inbound flush; turnOnCPS, turnOffCPS and turnOffPower included.
C14_FlushBeforeEveryFrame ==
  op \in DeviceOps =>
    \A k \in 1..Len(io) :
      io[k].t = "write" => (k > 1 /\ io[k - 1].t = "flush")

\* the number of reply bytes each single-exchange query asks for
ExpectedReply ==
  [getVersion |-> versize, getSerialNumber |-> sernumsize, getCPM |-> cpmsize,
   getCPS |-> cpmsize, getAutoCPS |-> cpmsize, getBatteryVoltage |-> voltsize]

\* C15: an exchange expecting N > 0 bytes makes at most N one-byte reads, and
\* its read status is failure exactly when fewer than N bytes were received
\* in them and success exactly when N were.
C15_StatusIffAllReceived ==
  op \in DOMAIN ExpectedReply =>
    /\ io[Len(io)].t = "read"
    /\ io[Len(io)].reads <= ExpectedReply[op]
    /\ mRead_status <=> acked.last


----------------------------------------------------------------------------
(* The mirror and the device: getConfigurationData, resetDataSaveAddress,   *)
(* getDataSaveAddress and openUSB                                           *)

\* mCFG_Data as the destination of a read, and back
MirrorArr(m) == [size |-> kNVMSize, dflt |-> 0, w |-> m]
ArrMirror(a) == [i \in 0..(kNVMSize - 1) |-> Elem(a, i)]

\* a slip: the reply read into a local buffer, the mirror left alone
getConfigurationData_local(st, fl, rp, m) ==
  LET s == communicate(st, get_cfg_cmd, fl, rp, kNVMSize, Arr(kNVMSize, 0))
  IN  [s |-> [s EXCEPT !.err = IF s.rstat THEN @ ELSE "eGet_CFG"],
       m |-> m]

\* communicate(get_cfg_cmd, &mCFG_Data, sizeof(mCFG_Data)); eGet_CFG on failure
getConfigurationData(st, fl, rp, m) ==
  LET s == communicate(st, get_cfg_cmd, fl, rp, kNVMSize, MirrorArr(m))
  IN  [s |-> [s EXCEPT !.err = IF s.rstat THEN @ ELSE "eGet_CFG"],
       m |-> ArrMirror(s.data)]

GetConfigurationData(fl, rp) ==
  \E g \in {getConfigurationData(Enter(<<>>, NoAcks), fl, rp, mCFG_Data)} :
    /\ mCFG_Data' = g.m
    /\ mError_code' = g.s.err
    /\ mRead_status' = g.s.rstat
    /\ op' = "getConfigurationData"
    /\ arg' = rp
    /\ sent' = g.s.sent
    /\ io' = g.s.io
    /\ acked' = g.s.acked
    /\ UNCHANGED <<mCPS_is_on, mBig_endian, charSigned, mHistory_data, pc, idx, ret>>

\* dataSaveAddress2 << 16 | dataSaveAddress1 << 8 | dataSaveAddress0
getDataSaveAddress(m) ==
  [hi |-> m[cfg_param_t.eDataSaveAddress],
   lo |-> m[cfg_param_t.eDataSaveAddress + 1] * 256
          + m[cfg_param_t.eDataSaveAddress + 2]]

\* a slip: the byte count of the uint32_t, 4, instead of the field's
ResetDataSaveAddress_count4 ==
  /\ mCFG_Data' = writeConfigurationData(mCFG_Data, mBig_endian,
                                         cfg_param_t.eDataSaveAddress, 4,
                                         HostBytes(U32(16), 4, mBig_endian))
  /\ op' = "resetDataSaveAddress"
  /\ arg' = [param |-> "eDataSaveAddress", value |-> U32(16)]
  /\ UNCHANGED <<mError_code, mRead_status, mCPS_is_on, mBig_endian, charSigned,
                 mHistory_data, pc, idx, ret, sent, acked, io>>

\* uint32_t address(0x10), passed as its bytes in memory with the byte count
\* of the field, 3
ResetDataSaveAddress ==
  /\ mCFG_Data' = writeConfigurationData(mCFG_Data, mBig_endian,
                                         cfg_param_t.eDataSaveAddress,
                                         cfg_bytecnt_t.eDataSaveAddress,
                                         HostBytes(U32(16), 4, mBig_endian))
  /\ op' = "resetDataSaveAddress"
  /\ arg' = [param |-> "eDataSaveAddress", value |-> U32(16)]
  /\ UNCHANGED <<mError_code, mRead_status, mCPS_is_on, mBig_endian, charSigned,
                 mHistory_data, pc, idx, ret, sent, acked, io>>

\* kNew_Firmware = 2.23f, in thousandths
kNew_Firmware == 2 * 1000 + 230

\* firmware_rev >> mFirmware_revision for a text of digits and '.': the
\* value in thousandths of the longest prefix that is a number, from
\* character i on; any is whether a digit has been read
RECURSIVE scanRevision(_, _, _, _, _, _)
scanRevision(c, i, scale, seenDot, acc, any) ==
  IF i > Len(c) THEN [ok |-> any, value |-> acc]
  ELSE IF IsDigit(c[i])
       THEN IF seenDot
            THEN scanRevision(c, i + 1, scale \div 10, TRUE,
                              acc + (c[i] - 48) * scale, TRUE)
            ELSE scanRevision(c, i + 1, scale, FALSE,
                              acc * 10 + (c[i] - 48) * 1000, TRUE)
       ELSE IF c[i] = 46 /\ ~seenDot
            THEN scanRevision(c, i + 1, scale, TRUE, acc, any)
            ELSE [ok |-> any, value |-> acc]

\* vers[10] .. vers[13]; beyond stands for what lies past the end of a
\* shorter string
firmwareChars(vers, beyond) ==
  [k \in 1..4 |-> IF 10 + k <= Len(vers) THEN vers[10 + k]
                  ELSE IF 10 + k = Len(vers) + 1 THEN 0 ELSE beyond]

\* open, getVersion and, when its read status is success, the revision
\* check followed by getConfigurationData. A failed extraction leaves 0 in
\* mFirmware_revision or, before C++11, what it held (stale).
OpenUSB(opened, fl, rpv, junk, tail, rpc, stale) ==
  IF ~opened
  THEN /\ mError_code' = "eUSB_open_failed"
       /\ op' = "openUSB"
       /\ arg' = [opened |-> FALSE, version |-> <<>>, config |-> <<>>]
       /\ ret' = [text |-> <<>>, revision |-> stale]
       /\ sent' = <<>>
       /\ io' = <<>>
       /\ acked' = NoAcks
       /\ UNCHANGED <<mRead_status, mCPS_is_on, mBig_endian, charSigned, mCFG_Data,
                      mHistory_data, pc, idx>>
  ELSE
    \E s \in {communicate([Enter(<<>>, NoAcks) EXCEPT !.err = "eNoProblem"],
                          get_version_cmd, fl, rpv, versize,
                          Local(versize + 1, junk))} :
    \E str \in {cstr(IF s.rstat THEN s.data
                     ELSE storeString(s.data, invalid_version, 1), 0)} :
    \E vers \in {str.text \o (IF str.overrun THEN tail ELSE <<>>)} :
    \E scan \in {scanRevision(firmwareChars(vers, junk), 1, 100, FALSE, 0, FALSE)} :
    \E rev \in (IF ~s.rstat THEN {stale}
                ELSE IF scan.ok THEN {scan.value} ELSE {0, stale}) :
    \E g \in {IF s.rstat
              THEN getConfigurationData(
                     [s EXCEPT !.err = IF rev < kNew_Firmware
                                       THEN "eOlder_firmware" ELSE @],
                     fl, rpc, mCFG_Data)
              ELSE [s |-> [s EXCEPT !.err = "eGet_version"], m |-> mCFG_Data]} :
      /\ mCFG_Data' = g.m
      /\ mError_code' = g.s.err
      /\ mRead_status' = g.s.rstat
      /\ op' = "openUSB"
      /\ arg' = [opened |-> TRUE, version |-> rpv, config |-> rpc]
      /\ ret' = [text |-> vers, revision |-> rev]
      /\ sent' = g.s.sent
      /\ io' = g.s.io
      /\ acked' = g.s.acked
      /\ UNCHANGED <<mCPS_is_on, mBig_endian, charSigned, mHistory_data, pc, idx>>

----------------------------------------------------------------------------
(* A local change to the mirror and then a refresh from the device, on a    *)
(* host of either byte order.                                               *)

\* the 256 bytes the device holds
DeviceConfig == [k \in 1..kNVMSize |-> (3 * (k - 1) + 17) % 256]

\* replies to the configuration query: complete, one byte short, none
ConfigReplies ==
  {Gots(DeviceConfig), Gots(SubSeq(DeviceConfig, 1, kNVMSize - 1)), <<>>}

\* "GMC-300Re 2.22", "GMC-300Re 2.23"
OldVersionText == <<71, 77, 67, 45, 51, 48, 48, 82, 101, 32, 50, 46, 50, 50>>
NewVersionText == <<71, 77, 67, 45, 51, 48, 48, 82, 101, 32, 50, 46, 50, 51>>

OpenVersionReplies ==
  {Gots(OldVersionText), Gots(NewVersionText), Gots(VersionText),
   Gots(SubSeq(OldVersionText, 1, versize - 1)), <<ReadErr>>}

\* one value for every field: the low bytes of 0x12345678
MirrorValue(n) ==
  [hi |-> IF n = 4 THEN 4660 ELSE IF n = 3 THEN 52 ELSE 0,
   lo |-> IF n = 1 THEN 120 ELSE 22136]

LocalOps == {"writeConfigurationData", "setSaveDataType", "resetDataSaveAddress"}

InitMirror ==
  /\ mError_code \in {"eNoProblem", "eGet_CPM"}
  /\ mRead_status \in BOOLEAN
  /\ mCPS_is_on \in BOOLEAN
  /\ mBig_endian \in BOOLEAN
  /\ charSigned = TRUE
  /\ mCFG_Data = [i \in 0..(kNVMSize - 1) |-> i]
  /\ mHistory_data = Arr(kHistory_Data_Maxsize, 0)
  /\ pc = "idle"
  /\ idx = 0
  /\ op = "none"
  /\ arg = <<>>
  /\ ret = <<>>
  /\ sent = <<>>
  /\ acked = NoAcks
  /\ io = <<>>

NextMirror ==
  \/ /\ op = "none"
     /\ \/ \E p \in DOMAIN cfg_param_t :
             WriteConfigurationData(p, MirrorValue(cfg_bytecnt_t[p]))
        \/ \E x \in {2} : SetSaveDataType(x)
        \/ ResetDataSaveAddress
  \/ /\ op \in {"none"} \cup LocalOps
     /\ \/ \E rp \in ConfigReplies : GetConfigurationData(Stray(0), rp)
        \/ \E opened \in BOOLEAN, rpv \in OpenVersionReplies,
              rpc \in {Gots(DeviceConfig), <<>>} :
             OpenUSB(opened, Stray(0), rpv, 65, <<65>>, rpc, 0)

SpecMirror == InitMirror /\ [][NextMirror]_vars


\* C16: after openUSB on a device whose firmware revision is below 2.23,
\* with the version reply and the initial configuration read both complete,
\* the sticky error code is eOlder_firmware.
C16_OlderFirmwareWarning ==
  (/\ op = "openUSB"
   /\ arg.opened
   /\ Delivers(arg.version, versize)
   /\ Delivers(arg.config, kNVMSize)
   /\ ret.revision < kNew_Firmware) => mError_code = "eOlder_firmware"

\* C17: after a getConfigurationData in which all 256 bytes arrive, the
\* mirror holds the 256 reply bytes in order, whatever it held before.
C17_MirrorIsReply ==
  (op = "getConfigurationData" /\ Delivers(arg, kNVMSize)) =>
    \A i \in 0..(kNVMSize - 1) : mCFG_Data[i] = arg[i + 1].b

C17_Witness ==
  /\ op = "getConfigurationData"
  /\ Delivers(arg, kNVMSize)
  /\ mRead_status
  /\ mCFG_Data[cfg_param_t.eSaveDataType] = DeviceConfig[cfg_param_t.eSaveDataType + 1]
  /\ mCFG_Data[cfg_param_t.eSaveDataType] # 2

\* C18: writeConfigurationData, setSaveDataType and resetDataSaveAddress do
\* no device I/O, change no mirror byte outside offset .. offset+byteCount-1
\* of their field, and leave the sticky error code, the read status and the
\* streaming flag as they were.
C18_LocalWriteFrame ==
  [][op' \in LocalOps =>
       /\ io' = io /\ sent' = sent /\ io' = <<>>
       /\ \A i \in 0..(kNVMSize - 1) :
            (i < cfg_param_t[arg'.param]
               \/ i >= cfg_param_t[arg'.param] + cfg_bytecnt_t[arg'.param])
              => mCFG_Data'[i] = mCFG_Data[i]
       /\ UNCHANGED <<mError_code, mRead_status, mCPS_is_on>>]_vars

C18_Witness ==
  /\ op = "resetDataSaveAddress"
  /\ mError_code = "eGet_CPM"
  /\ ~mRead_status
  /\ mCPS_is_on
  /\ mCFG_Data[cfg_param_t.eDataSaveAddress + 2] = 16
  /\ mCFG_Data[cfg_param_t.eDataSaveAddress + 3]
       = cfg_param_t.eDataSaveAddress + 3

\* C19: after resetDataSaveAddress, on a host of either byte order, the
\* mirror bytes 38..40 are 00 00 10 and getDataSaveAddress() is 0x10.
C19_ResetAddressIs0x10 ==
  op = "resetDataSaveAddress" =>
    /\ mCFG_Data[cfg_param_t.eDataSaveAddress] = 0
    /\ mCFG_Data[cfg_param_t.eDataSaveAddress + 1] = 0
    /\ mCFG_Data[cfg_param_t.eDataSaveAddress + 2] = 16
    /\ getDataSaveAddress(mCFG_Data) = U32(16)

\* C20: getAutoCPS sends no frame and does no flush; all it does on the
\* transport is the reads of one 2-byte reply, with streaming on or off.
C20_AutoCPSReadsOnly ==
  op = "getAutoCPS" =>
    /\ sent = <<>>
    /\ Len(io) = 1
    /\ io[1].t = "read"
    /\ io[1].reads >= 1
    /\ io[1].reads <= cpmsize

C20_Witness ==
  /\ op = "getAutoCPS"
  /\ mCPS_is_on
  /\ io = <<ReadEv(cpmsize)>>
  /\ acked.last

----------------------------------------------------------------------------
(* Which validation code a rejected history request leaves *)

\* address > 65536
AddrOver64K(a) == a.hi > 1 \/ (a.hi = 1 /\ a.lo > 0)

\* address + length > 65536, the sum taken modulo 2^32 as uint32_t gives it
WrappedSumOver64K(a, l) ==
  LET lo == a.lo + l.lo
      hi == (a.hi + l.hi + (lo \div H16)) % H16
  IN  hi > 1 \/ (hi = 1 /\ lo % H16 > 0)

HistoryFrame == sent[1]

C23_AbortOnMissingAck ==
  [][/\ (pc = "load" /\ ~acked'.last) =>
          (mError_code' = "eWrite_CFG" /\ pc' # "load")
     /\ (WriteNotAcked /\ pc # "idle") =>
          ~(Len(sent') = Len(sent) + 1 /\ IsWriteCfg(sent'[Len(sent')]))]_vars

\* C24: openUSB opens the port, queries the version and then reads the
\* configuration. A port that cannot be opened: no frame, eUSB_open_failed.
\* A short version reply: no configuration read, eGet_version. A complete
\* version reply and a short configuration reply: eGet_CFG.
C24_OpenSequence ==
  op = "openUSB" =>
    /\ ~arg.opened => (sent = <<>> /\ io = <<>> /\ mError_code = "eUSB_open_failed")
    /\ (arg.opened /\ ~Delivers(arg.version, versize)) =>
         (sent = <<get_version_cmd>> /\ mError_code = "eGet_version")
    /\ (arg.opened /\ Delivers(arg.version, versize)) =>
         /\ sent = <<get_version_cmd, get_cfg_cmd>>
         /\ ~Delivers(arg.config, kNVMSize) => mError_code = "eGet_CFG"

----------------------------------------------------------------------------
(* Streaming: turnOnCPS, turnOffCPS and the queries made while the device   *)
(* pushes samples. The environment of a behaviour is drawn in the initial   *)
(* state: what the reads of a flush return, the sample the device pushes    *)
(* between a flush and its answer while streaming is on, and its answer.    *)

\* what the reads of a flush return: stray bytes, failed reads
StreamFlush ==
  {Stray(n) : n \in {0, 1, kMaxtries - 1, kMaxtries, kMaxtries + 1}} \cup
  {<<ReadErr>>, Stray(kMaxtries - 1) \o <<ReadErr>>, [i \in 1..kMaxtries |-> ReadErr]}

\* a pushed sample, 0x004D, or none
StreamPushed == {<<>>, <<0, 77>>}

\* the answer to a count query, 0x001E, or none
StreamAnswers == {Gots(<<0, 30>>), <<>>}

\* what the reads after a frame return
StreamReply == (IF mCPS_is_on THEN Gots(arg.pushed) ELSE <<>>) \o arg.reply

InitStream ==
  /\ mError_code = "eNoProblem"
  /\ mRead_status = TRUE
  /\ mCPS_is_on = FALSE
  /\ mBig_endian = FALSE
  /\ charSigned = TRUE
  /\ mCFG_Data = [i \in 0..(kNVMSize - 1) |-> 0]
  /\ mHistory_data = Arr(kHistory_Data_Maxsize, 0)
  /\ pc = "idle"
  /\ idx = 0
  /\ op = "none"
  /\ arg \in [flush : StreamFlush, pushed : StreamPushed, reply : StreamAnswers]
  /\ ret = <<>>
  /\ sent = <<>>
  /\ acked = NoAcks
  /\ io = <<>>

NextStream ==
  \/ TurnOnCPS
  \/ TurnOffCPS(arg.flush)
  \/ GetCPM(arg.flush, StreamReply, 65)
  \/ GetCPS(arg.flush, StreamReply, 65)
  \/ GetAutoCPS(IF mCPS_is_on THEN Gots(arg.pushed) ELSE <<>>, 65)

SpecStream == InitStream /\ [][NextStream]_vars

\* the k-th read of the flush returned a byte
FlushGot(k) == Rd(arg.flush, k).n = 1

\* C25: the streaming flag starts Off, is On after turnOnCPS and Off after
\* turnOffCPS. turnOffCPS sends the stop frame and then does one flush of at
\* most 10 reads; the flag is Off whether or not the flush succeeded, and the
\* code left is eClear_USB exactly when all 10 flush reads returned a byte.
C25_StreamingFlag ==
  /\ op = "none" => ~mCPS_is_on
  /\ op = "turnOnCPS" => mCPS_is_on
  /\ op = "turnOffCPS" =>
       /\ ~mCPS_is_on
       /\ Len(io) = 2
       /\ io[1] = WriteEv(turn_off_cps_cmd)
       /\ io[2].t = "flush"
       /\ io[2].reads <= kMaxtries
       /\ mError_code = "eClear_USB" <=> \A k \in 1..kMaxtries : FlushGot(k)

\* C30: clearUSB makes at most 10 one-byte reads and stops at the first that
\* returns no byte; it sets eClear_USB exactly when stray bytes are still
\* pending after its reads, so with 10 or fewer stray bytes pending it
\* discards them all and sets no error. (Observed after turnOffCPS, whose
\* last step is the flush.)
C30_FlushBounded ==
  op = "turnOffCPS" =>
    LET reads == io[2].reads
    IN  /\ reads >= 1
        /\ reads <= kMaxtries
        /\ \A k \in 1..(reads - 1) : FlushGot(k)
        /\ reads < kMaxtries => ~FlushGot(reads)
        /\ mError_code = "eClear_USB" <=> FlushGot(reads + 1)

\* C26: while streaming is on a discrete query is neither refused nor
\* deferred: getCPM still sends its frame, and when the device pushes a
\* sample before its answer the value returned, with read status success and
\* code eNoProblem, is the pushed sample.
C26_QueryWhileStreaming ==
  (op = "getCPM" /\ mCPS_is_on) =>
    /\ sent = <<get_cpm_cmd>>
    /\ Len(io) = 3 /\ io[2] = WriteEv(get_cpm_cmd) /\ io[3].t = "read"
    /\ Len(arg.pushed) = cpmsize =>
         /\ mRead_status
         /\ mError_code = "eNoProblem"
         /\ ret = (arg.pushed[1] % 64) * 256 + arg.pushed[2]

C26_Witness ==
  /\ op = "getCPM"
  /\ mCPS_is_on
  /\ arg.pushed = <<0, 77>>
  /\ arg.reply = Gots(<<0, 30>>)
  /\ mRead_status
  /\ mError_code = "eNoProblem"
  /\ sent = <<get_cpm_cmd>>
  /\ ret = 77

----------------------------------------------------------------------------
(* setDate and setTime on their own: one call per behaviour, every text of  *)
(* three two-digit fields drawn from SetFields.                             *)

\* "00", "01", "08", "09", "12", "31", "59", "99"
SetFields ==
  {<<48, 48>>, <<48, 49>>, <<48, 56>>, <<48, 57>>, <<49, 50>>, <<51, 49>>,
   <<53, 57>>, <<57, 57>>}

SetTexts == {a \o b \o c : a \in SetFields, b \in SetFields, c \in SetFields}

\* the three replies: all there, the second or all missing, the first a
\* failed read
SetScripts ==
  SetReplies \cup {<<(<<>>), <<>>, <<>>>>, <<(<<>>), <<Got(170)>>, <<Got(170)>>>>}

InitSet ==
  /\ mError_code \in {"eNoProblem", "eGet_CPM"}
  /\ mRead_status = TRUE
  /\ mCPS_is_on = FALSE
  /\ mBig_endian = FALSE
  /\ charSigned = TRUE
  /\ mCFG_Data = [i \in 0..(kNVMSize - 1) |-> 0]
  /\ mHistory_data = Arr(kHistory_Data_Maxsize, 0)
  /\ pc = "idle"
  /\ idx = 0
  /\ op = "none"
  /\ arg = <<>>
  /\ ret = <<>>
  /\ sent = <<>>
  /\ acked = NoAcks
  /\ io = <<>>

NextSet ==
  /\ op = "none"
  /\ \E text \in SetTexts, fl \in {Stray(0), Stray(1)}, rps \in SetScripts :
       \/ SetDate(text, fl, rps, 0)
       \/ SetTime(text, fl, rps, 0)

SpecSet == InitSet /\ [][NextSet]_vars

\* the number two digit characters spell
TwoDigits(c1, c2) == 10 * (c1 - 48) + (c2 - 48)

\* C27: setDate sends exactly three frames, month, day, year, and setTime
\* three, hour, minute, second; each carries one parameter byte, the number
\* its two digits of the 6-digit text spell; each is preceded by a flush and
\* followed by a 1-byte reply read, whether or not an earlier reply came.
C27_ThreeSubCommands ==
  op \in {"setDate", "setTime"} =>
    LET prefixes == IF op = "setDate"
                    THEN << <<60, 83, 69, 84, 68, 65, 84, 69, 77, 77>>,
                            <<60, 83, 69, 84, 68, 65, 84, 69, 68, 68>>,
                            <<60, 83, 69, 84, 68, 65, 84, 69, 89, 89>> >>
                    ELSE << <<60, 83, 69, 84, 84, 73, 77, 69, 72, 72>>,
                            <<60, 83, 69, 84, 84, 73, 77, 69, 77, 77>>,
                            <<60, 83, 69, 84, 84, 73, 77, 69, 83, 83>> >>
    IN  /\ Len(sent) = 3
        /\ Len(io) = 9
        /\ \A k \in 1..3 :
             /\ sent[k] = prefixes[k]
                            \o <<TwoDigits(arg[2 * k - 1], arg[2 * k]), 62, 62>>
             /\ io[3 * k - 2].t = "flush"
             /\ io[3 * k - 1] = WriteEv(sent[k])
             /\ io[3 * k] = ReadEv(retsize)

\* "083199", the first reply missing
C27_Witness ==
  /\ op = "setDate"
  /\ arg = <<48, 56, 51, 49, 57, 57>>
  /\ ~acked.all
  /\ acked.last
  /\ sent = << <<60, 83, 69, 84, 68, 65, 84, 69, 77, 77, 8, 62, 62>>,
               <<60, 83, 69, 84, 68, 65, 84, 69, 68, 68, 31, 62, 62>>,
               <<60, 83, 69, 84, 68, 65, 84, 69, 89, 89, 99, 62, 62>> >>

\* the error code of each query's own class
OwnCode ==
  [getVersion        |-> "eGet_version",
   getSerialNumber   |-> "eGet_serial_number",
   getCPM            |-> "eGet_CPM",
   getCPS            |-> "eGet_CPS",
   getAutoCPS        |-> "eGet_AutoCPS",
   getBatteryVoltage |-> "eGet_battery_voltage",
   getHistoryData    |-> "eGet_history_data"]

\* C28: right after an operation returns, the sticky code is eNoProblem or
\* the operation's own code, and it is the own code exactly when the reply
\* was short. (For getHistoryData: of a request that was accepted.)
C28_OwnCodeOnShortRead ==
  (op \in DOMAIN OwnCode /\ (op = "getHistoryData" => sent # <<>>)) =>
    /\ mError_code \in {"eNoProblem", OwnCode[op]}
    /\ mError_code = OwnCode[op] <=> ~acked.last

\* C29: the position in the history buffer that getHistoryData returns is an
\* index 0..4095, after a success and after every failure, a rejected
\* request with an address of 4096 or more included.
C29_ReturnInsideBuffer ==
  HistoryDone => (ret.hi = 0 /\ ret.lo < kHistory_Data_Maxsize)

\* C31: when the flush that opens an exchange fails, all 10 of its reads
\* returning a byte, the sticky code after the operation returns is not
\* eNoProblem, even when the command's own reply arrives in full.
C31_FlushFailureVisible ==
  (op \in {"getCPM", "getCPS"} /\ \A k \in 1..kMaxtries : FlushGot(k)) =>
    mError_code # "eNoProblem"

\* C32: a device read replaces the mirror as a whole or not at all: after
\* getConfigurationData the mirror is the device's reply in all its 256
\* bytes, or it is what it was before the call.
C32_MirrorReplacedWhole ==
  [][op' = "getConfigurationData" =>
       \/ mCFG_Data' = mCFG_Data
       \/ /\ Delivers(arg', kNVMSize)
          /\ \A i \in 0..(kNVMSize - 1) : mCFG_Data'[i] = arg'[i + 1].b]_vars

----------------------------------------------------------------------------
(* The commit with its steps taken: whenever an exchange of the commit can  *)
(* be made it is made, each read returning or timing out after VTIME.       *)

SpecCommitLive == InitCommit /\ [][NextCommit]_vars /\ WF_vars(NextCommit)

\* C33: every operation ends even when the device sends nothing: an exchange
\* is one flush of at most 10 reads, the frame, and at most as many reads as
\* the reply is long; updateConfigurationData makes at most 258 exchanges
\* (1 erase, at most 256 writes, 1 update) and then returns, each exchange
\* having read its reply or timed out.
C33_CommitTerminates ==
  /\ [](op = "updateConfigurationData" =>
          /\ Len(sent) <= kNVMSize + 2
          /\ Len(io) = 3
          /\ io[1].t = "flush" /\ io[1].reads <= kMaxtries
          /\ io[2] = WriteEv(sent[Len(sent)])
          /\ io[3].t = "read" /\ io[3].reads = retsize)
  /\ (pc # "idle") ~> (pc = "idle")

\* the device silent throughout: erase, the write for offset 0 and update
C33_Witness ==
  /\ CommitDone
  /\ Len(sent) = 3
  /\ ~acked.all
  /\ ~mRead_status
  /\ mError_code = "eUpdate_CFG"

\* C34: readCmdReturn reports success only when retbytes bytes were
\* received: when a read returns -1 the read status afterwards is failure,
\* an error on the first read of an exchange included.
C34_ErrorIsNotSuccess ==
  (op \in {"getVersion", "getSerialNumber", "getCPM", "getCPS", "getAutoCPS",
           "getBatteryVoltage", "getHistoryData", "setDate", "setTime"}
     /\ io # <<>> /\ io[Len(io)].t = "read")
    => (mRead_status => acked.last)

\* C35: setDate, setTime and sendKey leave no error code: after each of them
\* the sticky code is eNoProblem whether or not the device acknowledged, and
\* eSet_Year, eSet_Month, eSet_Day, eSet_Hour, eSet_Minute and eSet_Second
\* are the sticky code in no reachable state.
C35_SetLeavesNoCode ==
  /\ op \in {"setDate", "setTime", "sendKey"} => mError_code = "eNoProblem"
  /\ mError_code \notin {"eSet_Year", "eSet_Month", "eSet_Day", "eSet_Hour",
                         "eSet_Minute", "eSet_Second"}

C35_Witness ==
  /\ op = "setTime"
  /\ ~mRead_status
  /\ ~acked.last
  /\ io[1] = FlushEv(kMaxtries)
  /\ mError_code = "eNoProblem"

\* C36: no history byte of an earlier call survives a later one: after every
\* getHistoryData call, accepted or rejected, with a full or a short reply, a
\* buffer byte that is not 0 is a byte of this call's reply (the device's
\* byte for its index, read by this call), and every other byte is 0.
C36_NoStaleHistory ==
  HistoryDone =>
    \A i \in 0..(kHistory_Data_Maxsize - 1) :
      Elem(mHistory_data, i) # 0 =>
        /\ io # <<>>
        /\ i < io[Len(io)].reads
        /\ Elem(mHistory_data, i) = HistByte(i + 1)

\* a short reply: one byte of the two requested
C36_Witness ==
  /\ HistoryDone
  /\ arg.length = U32(2)
  /\ ~mRead_status
  /\ Elem(mHistory_data, 0) = HistByte(1)
  /\ Elem(mHistory_data, 1) = 0
  /\ Elem(mHistory_data, kHistory_Data_Maxsize - 1) = 0

\* C37: for 32-bit address and length, getHistoryData sends a frame exactly
\* when length <= 4096 and address + length, as a sum of integers, is
\* <= 65536; a request whose 32-bit sum wraps around 2^32 is not accepted.
C37_ValidationSound ==
  HistoryDone =>
    (sent # <<>> <=>
       (~LenOver4K(arg.length) /\ ~SumOver64K(arg.address, arg.length)))

\* address 0xFFFFFFFF with length 1: the 32-bit sum is 0
C37_Witness ==
  /\ HistoryDone
  /\ arg.address = [hi |-> 65535, lo |-> 65535]
  /\ arg.length = U32(1)
  /\ sent = <<>>
  /\ mError_code = "eGet_history_data_address"

\* C38: a commit never changes the host mirror: through every exchange of
\* updateConfigurationData, acknowledged or not, the 256 mirror bytes stay
\* what they were before the call; the acknowledgement bytes read are not
\* stored in it.
C38_CommitKeepsMirror ==
  [][op' = "updateConfigurationData" => mCFG_Data' = mCFG_Data]_vars

\* a commit that failed at the write for offset 1
C38_Witness ==
  /\ CommitDone
  /\ ~acked.writes
  /\ idx = 1
  /\ Len(sent) = 4
  /\ mCFG_Data \in CommitMirrors

----------------------------------------------------------------------------
(* The reads of a reply on their own: a history request of a few bytes      *)
(* answered by every sequence of bytes, timeouts and failed reads.          *)

MaxScript == 4

NextRead ==
  /\ op = "none"
  /\ arg.length.hi = 0
  /\ arg.length.lo <= MaxScript
  /\ \E rp \in SeqsUpTo({Got(9), Timeout, ReadErr}, MaxScript) :
       GetHistoryData(arg.address, arg.length, Stray(0), rp)

SpecRead == InitHistory /\ [][NextRead]_vars

\* C39: readCmdReturn stores no received byte at a destination index of
\* retbytes or more, whatever sequence of bytes, timeouts and failed reads
\* it meets; getHistoryData so never writes at or beyond index 4096.
C39_StoresBelowRetbytes ==
  (HistoryDone /\ sent # <<>>) =>
    \A i \in DOMAIN mHistory_data.w :
      /\ i >= 0
      /\ i < arg.length.lo
      /\ i < kHistory_Data_Maxsize

\* a byte, a failed read, and the next byte stored over the first
C39_Witness ==
  /\ HistoryDone
  /\ arg.length = U32(3)
  /\ io # <<>>
  /\ io[Len(io)] = ReadEv(3)
  /\ ~mRead_status
  /\ ~acked.last
  /\ DOMAIN mHistory_data.w = {0}

====
